---- MODULE Spec2Model ----
(***************************************************************************)
(* Model of script.js: the CSV normalizer (parseCSV), the fetch / load     *)
(* cycle (fetchData, fetchAndLoadData), the poller (startPolling,          *)
(* stopPolling), screen switching and the search handlers.                 *)
(*                                                                         *)
(* A JavaScript string is a sequence of one-character strings, so that     *)
(* split, trim, toLowerCase and the regular-expression replacements are    *)
(* computed character by character.  A JavaScript object is a sequence of  *)
(* [key, value] entries in property-enumeration order.                     *)
(***************************************************************************)
EXTENDS Integers, Sequences, FiniteSets, TLC

VARIABLES
    \* ---- one parseCSV call, statement by statement ----
    csvText,        \* the argument of parseCSV
    lines,          \* const lines (script.js:28)
    normalizedHeaders,   \* script.js:53
    headerFingerprint,   \* script.js:56
    i,              \* the loop index of script.js:62, 1-based (the header is lines[1])
    data,           \* const data (script.js:60)
    pc,             \* "call" | "loop" | "returned"
    \* ---- the page ----
    loaded,         \* window.onload has run
    activeScreen,   \* the screen element carrying class "active"
    doctorsData,    \* script.js:8
    databaseData,   \* script.js:9
    dataIntervalId, \* script.js:12, 0 models null
    timers,         \* handles of the interval timers that are live in the browser
    nextTimer,      \* the handle the next setInterval returns
    doctorSearch,   \* doctorSearchInput.value
    databaseSearch, \* databaseSearchInput.value
    doctorRows,     \* records shown as rows of doctorTableBody (a placeholder shows none)
    databaseRows,   \* records shown as rows of databaseTableBody
    cycles,         \* fetchAndLoadData calls suspended at the await of script.js:118
    started,        \* number of fetchAndLoadData calls so far; a call's number is its id
    lastCycle       \* the call whose continuation (script.js:123-132) ran last

parseVars == <<csvText, lines, normalizedHeaders, headerFingerprint, i, data, pc>>
pageVars == <<loaded, activeScreen, doctorsData, databaseData, dataIntervalId, timers,
              nextTimer, doctorSearch, databaseSearch, doctorRows, databaseRows,
              cycles, started, lastCycle>>
vars == <<csvText, lines, normalizedHeaders, headerFingerprint, i, data, pc, loaded, activeScreen, doctorsData, databaseData,
          dataIntervalId, timers, nextTimer, doctorSearch, databaseSearch, doctorRows,
          databaseRows, cycles, started, lastCycle>>

(***************************************************************************)
(* Strings                                                                 *)
(***************************************************************************)
NL == "\n"
COMMA == ","

\* What String.prototype.trim removes and what \s matches, among the characters used.
Whitespace == {" ", "\t", "\r", "\n"}

UpperCase == <<"A","B","C","D","E","F","G","H","I","J","K","L","M",
               "N","O","P","Q","R","S","T","U","V","W","X","Y","Z">>
LowerCase == <<"a","b","c","d","e","f","g","h","i","j","k","l","m",
               "n","o","p","q","r","s","t","u","v","w","x","y","z">>
Digits == <<"0","1","2","3","4","5","6","7","8","9">>

\* The character class [a-z0-9].
AlnumLower == {LowerCase[k] : k \in 1..26} \cup {Digits[k] : k \in 1..10}

Concat(ss) ==
    LET RECURSIVE go(_)
        go(k) == IF k > Len(ss) THEN <<>> ELSE ss[k] \o go(k + 1)
    IN go(1)

\* String.prototype.trim
trim(s) ==
    LET keep == {k \in 1..Len(s) : s[k] \notin Whitespace}
    IN IF keep = {} THEN <<>>
       ELSE LET lo == CHOOSE k \in keep : \A m \in keep : k <= m
                hi == CHOOSE k \in keep : \A m \in keep : k >= m
            IN SubSeq(s, lo, hi)

toLowerCaseChar(c) ==
    IF \E k \in 1..26 : UpperCase[k] = c
    THEN LowerCase[CHOOSE k \in 1..26 : UpperCase[k] = c]
    ELSE c

\* String.prototype.toLowerCase
toLowerCase(s) == [k \in 1..Len(s) |-> toLowerCaseChar(s[k])]

\* .replace(/\s+/g, '')
stripWhitespace(s) == SelectSeq(s, LAMBDA c : c \notin Whitespace)

\* .replace(/[^a-z0-9]/g, '')
stripNonAlnum(s) == SelectSeq(s, LAMBDA c : c \in AlnumLower)

\* String.prototype.split with a one-character separator: one piece more than
\* there are separators, piece j lying between separators j - 1 and j; split
\* of the empty string is one empty string.
split(s, sep) ==
    LET at == {k \in 1..Len(s) : s[k] = sep}
        pieces == Cardinality(at) + 1
        sepAt(j) == CHOOSE k \in at : Cardinality({m \in at : m < k}) = j - 1
    IN [j \in 1..pieces |->
           SubSeq(s, IF j = 1 THEN 1 ELSE sepAt(j - 1) + 1,
                     IF j = pieces THEN Len(s) ELSE sepAt(j) - 1)]

\* String.prototype.includes
includes(s, q) ==
    \E k \in 0..(Len(s) - Len(q)) : SubSeq(s, k + 1, k + Len(q)) = q

(***************************************************************************)
(* Objects: entries in property-enumeration order.  Keys that are array    *)
(* indices ("0", "7", "12") enumerate first, in ascending numeric order;   *)
(* the other keys follow in the order they were first assigned.            *)
(***************************************************************************)
toNumber(k) ==
    LET RECURSIVE go(_, _)
        go(n, acc) ==
            IF n > Len(k) THEN acc
            ELSE go(n + 1, 10 * acc + (CHOOSE d \in 0..9 : Digits[d + 1] = k[n]))
    IN go(1, 0)

\* A canonical numeric string below 2^32 - 1.  Every such string of up to nine
\* digits qualifies; ten-digit keys exceed 32-bit arithmetic and are treated
\* as ordinary keys.
isArrayIndex(k) ==
    /\ k # <<>>
    /\ \A n \in 1..Len(k) : \E d \in 1..10 : Digits[d] = k[n]
    /\ Len(k) > 1 => k[1] # "0"
    /\ Len(k) <= 9

hasKey(obj, k) == \E n \in 1..Len(obj) : obj[n].key = k

\* obj[k], for a key the object has
get(obj, k) == obj[CHOOSE n \in 1..Len(obj) : obj[n].key = k].value

\* Object.values(obj)
values(obj) == [n \in 1..Len(obj) |-> obj[n].value]

\* obj[k] = v
put(obj, k, v) ==
    IF hasKey(obj, k)
    THEN [n \in 1..Len(obj) |-> IF obj[n].key = k THEN [key |-> k, value |-> v] ELSE obj[n]]
    ELSE IF isArrayIndex(k)
    THEN LET before == {n \in 1..Len(obj) :
                           isArrayIndex(obj[n].key) /\ toNumber(obj[n].key) < toNumber(k)}
             at == Cardinality(before)
         IN SubSeq(obj, 1, at) \o <<[key |-> k, value |-> v]>> \o SubSeq(obj, at + 1, Len(obj))
    ELSE Append(obj, [key |-> k, value |-> v])

(***************************************************************************)
(* parseCSV (script.js:27-93)                                              *)
(***************************************************************************)
\* The property names of headerMap and the names it maps them to, spelled out.
s_age == <<"a","g","e">>
s_constructor == <<"c","o","n","s","t","r","u","c","t","o","r">>
s_contact == <<"c","o","n","t","a","c","t">>
s_dateofbirth == <<"d","a","t","e","o","f","b","i","r","t","h">>
s_diastolic == <<"d","i","a","s","t","o","l","i","c">>
s_diastolicbp == <<"d","i","a","s","t","o","l","i","c","b","p">>
s_doctor == <<"d","o","c","t","o","r">>
s_gender == <<"g","e","n","d","e","r">>
s_heartrate == <<"h","e","a","r","t","r","a","t","e">>
s_name == <<"n","a","m","e">>
s_results == <<"r","e","s","u","l","t","s">>
s_spo2 == <<"s","p","o","2">>
s_systolic == <<"s","y","s","t","o","l","i","c">>
s_systolicbp == <<"s","y","s","t","o","l","i","c","b","p">>
s_temperature == <<"t","e","m","p","e","r","a","t","u","r","e">>

\* String(Object): what a property key becomes when the key expression is the
\* Object constructor function.
s_ObjectFunction ==
    <<"f","u","n","c","t","i","o","n"," ","O","b","j","e","c","t","(",")"," ","{"," ","[","n","a","t","i","v","e"," ","c","o","d","e","]"," ","}">>

\* const headerMap = {...}  (script.js:38-51): its own properties
headerMap ==
    [h \in {s_name, s_age, s_gender, s_dateofbirth, s_contact, s_systolicbp, s_diastolicbp, s_spo2, s_heartrate, s_temperature, s_results, s_doctor} |->
        CASE h = s_systolicbp -> s_systolic
          [] h = s_diastolicbp -> s_diastolic
          [] OTHER -> h]

\* headerMap[h] || h  (script.js:53).  headerMap is an object literal, so the
\* lookup also finds what it inherits from Object.prototype; "constructor" is
\* the one inherited name made only of [a-z0-9].  The function it finds is
\* truthy, and as a property key (script.js:85) it is its string conversion.
lookupHeader(h) ==
    IF h \in DOMAIN headerMap THEN headerMap[h]
    ELSE IF h = s_constructor THEN s_ObjectFunction
    ELSE h

\* trim().toLowerCase().replace(/\s+/g, '').replace(/[^a-z0-9]/g, '')
\* (script.js:34, 57, 72)
canonical(cell) == stripNonAlnum(stripWhitespace(toLowerCase(trim(cell))))

\* Variant: every kind of line break ends a line, a carriage return too.
nonBlankLinesAnyBreak(text) ==
    SelectSeq(split([k \in 1..Len(text) |-> IF text[k] = "\r" THEN NL ELSE text[k]], NL),
              LAMBDA line : trim(line) # <<>>)

\* csvText.split('\n').filter(line => line.trim() !== '')  (script.js:28)
nonBlankLines(text) == SelectSeq(split(text, NL), LAMBDA line : trim(line) # <<>>)

\* const headers (script.js:32-35)
headersOf(headerLine) ==
    LET rawHeaders == split(headerLine, COMMA)
    IN [k \in 1..Len(rawHeaders) |-> canonical(rawHeaders[k])]

\* const normalizedHeaders (script.js:53)
normalizedHeadersOf(headerLine) ==
    LET headers == headersOf(headerLine)
    IN [k \in 1..Len(headers) |-> lookupHeader(headers[k])]

\* const headerFingerprint (script.js:56-58), and currentRowFingerprint (script.js:71-73)
fingerprint(line) ==
    LET cells == split(line, COMMA)
    IN Concat([k \in 1..Len(cells) |-> canonical(cells[k])])

\* Variant: a threshold of one half.
tooShortHalf(nValues, nHeaders) == 10 * nValues < 5 * nHeaders

\* values.length < normalizedHeaders.length * 0.7  (script.js:66), in tenths
tooShort(nValues, nHeaders) == 10 * nValues < 7 * nHeaders

\* values.every(v => v.trim() === '')  (script.js:66)
allBlank(cells) == \A n \in 1..Len(cells) : trim(cells[n]) = <<>>

\* values[index] ? values[index].trim() : ''  (script.js:84)
valueAt(cells, index) ==
    IF index <= Len(cells) /\ cells[index] # <<>> THEN trim(cells[index]) ELSE <<>>

\* The object the forEach of script.js:83-87 leaves in obj.
buildObj(hdrs, cells) ==
    LET RECURSIVE go(_, _)
        go(index, obj) ==
            IF index > Len(hdrs) THEN obj
            ELSE go(index + 1, put(obj, hdrs[index], valueAt(cells, index)))
    IN go(1, <<>>)

\* isRowEmpty after the forEach of script.js:83-87
isRowEmpty(hdrs, cells) ==
    \A index \in 1..Len(hdrs) : valueAt(cells, index) = <<>>

\* Variant: no comparison of the row's fingerprint with the header's.
processRowNoFingerprint(hdrs, headerFp, line, acc) ==
    LET cells == split(line, COMMA)
    IN IF tooShort(Len(cells), Len(hdrs)) \/ allBlank(cells) THEN acc
       ELSE IF ~isRowEmpty(hdrs, cells) THEN Append(acc, buildObj(hdrs, cells))
       ELSE acc

\* One iteration of the loop of script.js:62-90: data after the row `line`.
processRow(hdrs, headerFp, line, acc) ==
    LET cells == split(line, COMMA)
    IN IF tooShort(Len(cells), Len(hdrs)) \/ allBlank(cells) THEN acc
       ELSE IF fingerprint(line) = headerFp THEN acc
       ELSE IF ~isRowEmpty(hdrs, cells) THEN Append(acc, buildObj(hdrs, cells))
       ELSE acc

\* parseCSV(csvText)  (script.js:27-93)
parseCSV(text) ==
    LET ls == nonBlankLines(text)
        RECURSIVE loop(_, _)
        loop(n, acc) ==
            IF n > Len(ls) THEN acc
            ELSE loop(n + 1, processRow(normalizedHeadersOf(ls[1]), fingerprint(ls[1]),
                                        ls[n], acc))
    IN IF Len(ls) <= 1 THEN <<>> ELSE loop(2, <<>>)

(***************************************************************************)
(* One parseCSV call, statement by statement                               *)
(***************************************************************************)
\* script.js:28-60: the lines, the early return, the header
ParseStart ==
    /\ pc = "call"
    /\ lines' = nonBlankLines(csvText)
    /\ data' = <<>>
    /\ IF Len(lines') <= 1
       THEN /\ pc' = "returned"
            /\ UNCHANGED <<normalizedHeaders, headerFingerprint, i>>
       ELSE /\ normalizedHeaders' = normalizedHeadersOf(lines'[1])
            /\ headerFingerprint' = fingerprint(lines'[1])
            /\ i' = 2
            /\ pc' = "loop"
    /\ UNCHANGED <<csvText, pageVars>>

\* script.js:62-90: one iteration
ParseRow ==
    /\ pc = "loop"
    /\ i <= Len(lines)
    /\ data' = processRow(normalizedHeaders, headerFingerprint, lines[i], data)
    /\ i' = i + 1
    /\ UNCHANGED <<csvText, lines, normalizedHeaders, headerFingerprint, pc, pageVars>>

\* script.js:92
ParseReturn ==
    /\ pc = "loop"
    /\ i > Len(lines)
    /\ pc' = "returned"
    /\ UNCHANGED <<csvText, lines, normalizedHeaders, headerFingerprint, i, data, pageVars>>

(***************************************************************************)
(* The page (script.js:8-24, 96-251).  Each handler is a function from the *)
(* page's state to its state after the handler has run to its end or to    *)
(* its await.                                                              *)
(***************************************************************************)
s_home == <<"h","o","m","e">>
s_doctors == <<"d","o","c","t","o","r","s">>
s_database == <<"d","a","t","a","b","a","s","e">>
s_schedule == <<"s","c","h","e","d","u","l","e">>
s_availability == <<"a","v","a","i","l","a","b","i","l","i","t","y">>
s_screenSuffix == <<"-","s","c","r","e","e","n">>

\* const screens (script.js:15-19): the id of the element under each key
screens ==
    [home |-> <<"h","o","m","e","-","s","c","r","e","e","n">>,
     doctors |-> <<"d","o","c","t","o","r","s","-","p","r","o","f","i","l","e","-","s","c","r","e","e","n">>,
     database |-> <<"d","a","t","a","b","a","s","e","-","a","c","c","e","s","s","-","s","c","r","e","e","n">>]

DataViews == {"doctors", "database"}

\* String.prototype.replace(pattern, '') with a string pattern: the first
\* occurrence only.
removeFirst(s, pat) ==
    LET at == {k \in 0..(Len(s) - Len(pat)) : SubSeq(s, k + 1, k + Len(pat)) = pat}
    IN IF at = {} THEN s
       ELSE LET k == CHOOSE m \in at : \A n \in at : m <= n
            IN SubSeq(s, 1, k) \o SubSeq(s, k + Len(pat) + 1, Len(s))

\* The page's state as one record.
Page ==
    [activeScreen |-> activeScreen, doctorsData |-> doctorsData,
     databaseData |-> databaseData, dataIntervalId |-> dataIntervalId,
     timers |-> timers, nextTimer |-> nextTimer, doctorSearch |-> doctorSearch,
     databaseSearch |-> databaseSearch, doctorRows |-> doctorRows,
     databaseRows |-> databaseRows, cycles |-> cycles, started |-> started]

Becomes(p) ==
    /\ activeScreen' = p.activeScreen
    /\ doctorsData' = p.doctorsData
    /\ databaseData' = p.databaseData
    /\ dataIntervalId' = p.dataIntervalId
    /\ timers' = p.timers
    /\ nextTimer' = p.nextTimer
    /\ doctorSearch' = p.doctorSearch
    /\ databaseSearch' = p.databaseSearch
    /\ doctorRows' = p.doctorRows
    /\ databaseRows' = p.databaseRows
    /\ cycles' = p.cycles
    /\ started' = p.started

\* record.field || ''  (script.js:186-189, 204-215)
field(record, k) == IF hasKey(record, k) THEN get(record, k) ELSE <<>>

\* renderDoctorsTable(data)  (script.js:177-192): the cells of the rows it
\* inserts; the placeholder of an empty dataset is no row.
renderDoctorsTable(d) ==
    [n \in 1..Len(d) |->
        <<field(d[n], s_name), field(d[n], s_contact),
          field(d[n], s_schedule), field(d[n], s_availability)>>]

\* renderDatabaseTable(data)  (script.js:194-218)
renderDatabaseTable(d) ==
    [n \in 1..Len(d) |->
        <<field(d[n], s_name), field(d[n], s_age), field(d[n], s_gender),
          field(d[n], s_dateofbirth), field(d[n], s_contact), field(d[n], s_systolic),
          field(d[n], s_diastolic), field(d[n], s_spo2), field(d[n], s_heartrate),
          field(d[n], s_temperature), field(d[n], s_results), field(d[n], s_doctor)>>]

\* filterData(query, data)  (script.js:220-227)
filterData(query, d) ==
    LET lowerCaseQuery == toLowerCase(query)
    IN SelectSeq(d, LAMBDA item :
           \E n \in 1..Len(item) : includes(toLowerCase(values(item)[n]), lowerCaseQuery))

\* clearInterval(id): a handle that is not live is ignored
clearInterval(ts, id) == ts \ {id}

\* Variant: the timer running is not cleared before the new one is set.
startPollingNoClear(p) ==
    [p EXCEPT !.timers = p.timers \cup {p.nextTimer},
              !.dataIntervalId = p.nextTimer,
              !.nextTimer = p.nextTimer + 1]

\* startPolling()  (script.js:137-145); setInterval returns a fresh non-zero handle
startPolling(p) ==
    [p EXCEPT !.timers = (IF p.dataIntervalId # 0
                          THEN clearInterval(p.timers, p.dataIntervalId)
                          ELSE p.timers) \cup {p.nextTimer},
              !.dataIntervalId = p.nextTimer,
              !.nextTimer = p.nextTimer + 1]

\* stopPolling()  (script.js:147-153)
stopPolling(p) ==
    IF p.dataIntervalId # 0
    THEN [p EXCEPT !.timers = clearInterval(p.timers, p.dataIntervalId),
                   !.dataIntervalId = 0]
    ELSE p

\* switchScreen(targetScreen)  (script.js:156-175)
switchScreen(p, targetScreen) ==
    LET shown == [p EXCEPT !.activeScreen = targetScreen]
        polled == IF targetScreen = "home" THEN stopPolling(shown) ELSE startPolling(shown)
    IN IF targetScreen = "doctors"
       THEN [polled EXCEPT !.doctorSearch = <<>>,
                           !.doctorRows = renderDoctorsTable(polled.doctorsData)]
       ELSE IF targetScreen = "database"
       THEN [polled EXCEPT !.databaseSearch = <<>>,
                           !.databaseRows = renderDatabaseTable(polled.databaseData)]
       ELSE polled

\* Variant: the status of the response is not looked at.
fetchDataAnyStatus(response) ==
    IF response.kind \in {"ok", "http"} THEN parseCSV(response.text) ELSE <<>>

\* fetchData(url)  (script.js:96-109) on the response the fetch gets:
\* kind "ok" (response.ok), "http" (a response that is not ok) or "network"
\* (fetch rejects).
fetchData(response) ==
    IF response.kind = "ok" THEN parseCSV(response.text) ELSE <<>>

\* fetchAndLoadData() up to its await  (script.js:111-121)
beginFetchAndLoadData(p) ==
    LET loading == IF Len(p.doctorsData) = 0 /\ Len(p.databaseData) = 0
                   THEN [p EXCEPT !.doctorRows = <<>>, !.databaseRows = <<>>]
                   ELSE p
    IN [loading EXCEPT !.started = p.started + 1,
                       !.cycles = p.cycles \cup {p.started + 1}]

\* const activeScreen  (script.js:127-128)
activeScreenName(p) ==
    IF p.activeScreen = "none" THEN s_home
    ELSE removeFirst(screens[p.activeScreen], s_screenSuffix)

\* fetchAndLoadData() from its await on  (script.js:118-132), for call c whose
\* two fetchData promises resolved to doctorsResult and databaseResult
resumeFetchAndLoadData(p, c, doctorsResult, databaseResult) ==
    LET got == [p EXCEPT !.doctorsData = doctorsResult,
                         !.databaseData = databaseResult,
                         !.cycles = p.cycles \ {c}]
        name == activeScreenName(got)
    IN IF name = s_doctors
       THEN [got EXCEPT !.doctorRows = renderDoctorsTable(got.doctorsData)]
       ELSE IF name = s_database
       THEN [got EXCEPT !.databaseRows = renderDatabaseTable(got.databaseData)]
       ELSE IF name = s_home THEN switchScreen(got, "home")
       ELSE got

\* handleDoctorSearch()  (script.js:229-232), the input holding `typed`
handleDoctorSearch(p, typed) ==
    [p EXCEPT !.doctorSearch = typed,
              !.doctorRows = renderDoctorsTable(filterData(trim(typed), p.doctorsData))]

\* handleDatabaseSearch()  (script.js:234-237)
handleDatabaseSearch(p, typed) ==
    [p EXCEPT !.databaseSearch = typed,
              !.databaseRows = renderDatabaseTable(filterData(trim(typed), p.databaseData))]

(***************************************************************************)
(* Inputs and bounds                                                       *)
(***************************************************************************)
\* fetchAndLoadData calls in one run
MaxCycles == 3
\* setInterval calls in one run
MaxTimers == 3

\* What the published sheets may hold, and the body of an error page.
ServerTexts == {<<"N","a","m","e","\n","A","l","\n","B","o">>, <<"N","a","m","e","\n","B","o">>}
ErrorBody == <<"E","r","r","o","r","\n","4","0","4">>

Responses ==
    {[kind |-> "ok", text |-> t] : t \in ServerTexts}
        \cup {[kind |-> "http", text |-> ErrorBody], [kind |-> "network", text |-> <<>>]}

\* What the promise of fetchData resolves to, for each response.
Settled == [r \in Responses |-> fetchData(r)]

\* What the user may type into a search box.
Queries == {<<>>, <<" ","A">>, <<"b","o">>}

(***************************************************************************)
(* The page's events                                                       *)
(***************************************************************************)
\* window.onload  (script.js:248-251)
OnLoad ==
    /\ ~loaded
    /\ started < MaxCycles
    /\ loaded' = TRUE
    /\ Becomes(beginFetchAndLoadData(switchScreen(Page, "home")))
    /\ UNCHANGED <<lastCycle, parseVars>>

\* The click listeners  (script.js:240-243)
Click ==
    \E targetScreen \in {"home", "doctors", "database"} :
        /\ targetScreen # "home" => nextTimer <= MaxTimers
        /\ Becomes(switchScreen(Page, targetScreen))
        /\ UNCHANGED <<loaded, lastCycle, parseVars>>

\* A live interval timer fires  (script.js:143)
TimerTick ==
    \E t \in timers :
        /\ started < MaxCycles
        /\ Becomes(beginFetchAndLoadData(Page))
        /\ UNCHANGED <<loaded, lastCycle, parseVars>>

\* Both fetches of a suspended call have settled  (script.js:118)
FetchesSettle ==
    \E c \in cycles, rd \in Responses, rp \in Responses :
        /\ Becomes(resumeFetchAndLoadData(Page, c, Settled[rd], Settled[rp]))
        /\ lastCycle' = [id |-> c, doctorsOk |-> rd.kind = "ok", databaseOk |-> rp.kind = "ok"]
        /\ UNCHANGED <<loaded, parseVars>>

\* The input listeners  (script.js:244-245); a search box takes input while
\* its screen is the one shown.
DoctorSearchInput ==
    \E typed \in Queries :
        /\ activeScreen = "doctors"
        /\ Becomes(handleDoctorSearch(Page, typed))
        /\ UNCHANGED <<loaded, lastCycle, parseVars>>

DatabaseSearchInput ==
    \E typed \in Queries :
        /\ activeScreen = "database"
        /\ Becomes(handleDatabaseSearch(Page, typed))
        /\ UNCHANGED <<loaded, lastCycle, parseVars>>

PageInit ==
    /\ loaded = FALSE
    /\ activeScreen \in {"none", "home"}
    /\ doctorsData = <<>>
    /\ databaseData = <<>>
    /\ dataIntervalId = 0
    /\ timers = {}
    /\ nextTimer = 1
    /\ doctorSearch = <<>>
    /\ databaseSearch = <<>>
    /\ doctorRows = <<>>
    /\ databaseRows = <<>>
    /\ cycles = {}
    /\ started = 0
    /\ lastCycle = [id |-> 0, doctorsOk |-> TRUE, databaseOk |-> TRUE]

ParseIdle ==
    /\ csvText = <<>>
    /\ lines = <<>>
    /\ normalizedHeaders = <<>>
    /\ headerFingerprint = <<>>
    /\ i = 1
    /\ data = <<>>
    /\ pc = "call"

Init == PageInit /\ ParseIdle

Next ==
    \/ OnLoad
    \/ Click
    \/ TimerTick
    \/ FetchesSettle
    \/ DoctorSearchInput
    \/ DatabaseSearchInput

Spec == Init /\ [][Next]_vars

(***************************************************************************)
(* Inputs of parseCSV                                                      *)
(***************************************************************************)
\* Lines of an input text
MaxLines == 3

\* The lines a text is made of: header rows, data rows, blank lines.
LinePool ==
    {<<>>,
     <<"N","a","m","e",",","A","g","e">>,
     <<" ","n","a","m","e"," ",","," ","A","G","E","\r">>,
     <<"N","a",",","m","e","-","A","g","e">>,
     <<"A","l",",","3","0">>,
     <<"B","o",",">>,
     <<",">>,
     <<",",",","x">>,
     <<"x">>,
     <<"S","y","s","t","o","l","i","c"," ","B","P",",","D","i","a","s","t","o","l","i","c"," ","B","P",",","1",",","c","o","n","s","t","r","u","c","t","o","r">>,
     <<"1","2","0",",","8","0",",","y">>,
     <<"A","g","e",",","a","g","e">>,
     <<"2",",","1">>,
     <<"A","l",",","3","0","\r","B","o",",","4","0">>}

\* Array.prototype.join('\n')
joinLines(ls) ==
    LET RECURSIVE go(_)
        go(n) == IF n > Len(ls) THEN <<>>
                 ELSE IF n = Len(ls) THEN ls[n]
                 ELSE ls[n] \o <<NL>> \o go(n + 1)
    IN go(1)

Texts == {joinLines(ls) : ls \in UNION {[1..n -> LinePool] : n \in 0..MaxLines}}

ParseInit ==
    /\ csvText \in Texts
    /\ lines = <<>>
    /\ normalizedHeaders = <<>>
    /\ headerFingerprint = <<>>
    /\ i = 1
    /\ data = <<>>
    /\ pc = "call"

NextParse ==
    \/ ParseStart
    \/ ParseRow
    \/ ParseReturn

InitParse == ParseInit /\ PageInit /\ activeScreen = "home"

SpecParse == InitParse /\ [][NextParse]_vars

(***************************************************************************)
(* Properties of parseCSV, under SpecParse                                 *)
(***************************************************************************)
\* The non-blank lines of a text: those with a character that is not whitespace.
NonBlankLinesOf(text) ==
    SelectSeq(split(text, NL), LAMBDA l : \E n \in 1..Len(l) : l[n] \notin Whitespace)

\* A cell's canonical form: lowercased, only [a-z0-9] kept (which also drops
\* the surrounding and inner whitespace).
CanonicalOf(cell) == SelectSeq(toLowerCase(cell), LAMBDA c : c \in AlnumLower)

FingerprintOf(line) ==
    LET cells == split(line, COMMA)
    IN Concat([k \in 1..Len(cells) |-> CanonicalOf(cells[k])])

\* The value a row gives header position idx: its trimmed cell, or the empty string.
AssignedOf(line, idx) ==
    LET cells == split(line, COMMA)
    IN IF idx <= Len(cells) THEN trim(cells[idx]) ELSE <<>>

\* The four reasons for which a data line yields no record.
SkippedRow(header, line) ==
    LET nh == Len(split(header, COMMA))
        cells == split(line, COMMA)
    IN \/ 10 * Len(cells) < 7 * nh
       \/ \A n \in 1..Len(cells) : trim(cells[n]) = <<>>
       \/ FingerprintOf(line) = FingerprintOf(header)
       \/ \A idx \in 1..nh : AssignedOf(line, idx) = <<>>

\* C3: parseCSV returns, in input row order, exactly one record for each data
\* line (non-blank line after the first) that is not skipped, a line being
\* skipped iff it has fewer cells than 70% of the header count, or only blank
\* cells, or the header's fingerprint, or only empty assigned values; it returns
\* no other record.
C3_OneRecordPerUnskippedRowInOrder ==
    pc = "returned" =>
        LET ls == NonBlankLinesOf(csvText)
            kept == IF Len(ls) = 0 THEN <<>>
                    ELSE SelectSeq(Tail(ls), LAMBDA l : ~SkippedRow(ls[1], l))
        IN /\ Len(data) = Len(kept)
           /\ \A k \in 1..Len(kept) :
                  data[k] = buildObj(normalizedHeadersOf(ls[1]), split(kept[k], COMMA))

\* A text of a header and two rows, both kept, whose records differ.
C3_Witness ==
    /\ pc = "returned"
    /\ Len(lines) = 3
    /\ Len(data) = 2
    /\ data[1] # data[2]

\* C4: a data row whose canonicalized cells, concatenated, equal the
\* canonicalized header concatenation adds nothing to parseCSV's output.
C4_DuplicateHeaderRowExcluded ==
    [][(/\ pc = "loop"
        /\ i' = i + 1
        /\ FingerprintOf(lines[i]) = FingerprintOf(lines[1])) => data' = data]_vars

\* The loop has gone past a row that has the header's fingerprint and as many
\* cells as the header, without being the header's text, and has kept another row.
C4_Witness ==
    /\ pc \in {"loop", "returned"}
    /\ Len(data) >= 1
    /\ \E k \in 2..(i - 1) :
          /\ FingerprintOf(lines[k]) = FingerprintOf(lines[1])
          /\ lines[k] # lines[1]
          /\ Len(split(lines[k], COMMA)) = Len(split(lines[1], COMMA))

\* C5 as stated: the length of parseCSV's output is at most the number of
\* non-blank input lines minus 1.
C5_LengthAtMostNonBlankMinusOne ==
    pc = "returned" => Len(data) <= Len(NonBlankLinesOf(csvText)) - 1

\* C5 as amended: for a text with a non-blank line the output has at most (the
\* number of non-blank lines - 1) records; for a text with none it is empty.
C5_LengthAtMostDataLines ==
    pc = "returned" =>
        LET n == Len(NonBlankLinesOf(csvText))
        IN IF n = 0 THEN Len(data) = 0 ELSE Len(data) <= n - 1

\* Three non-blank lines and two records: the bound is met.
C5_Witness ==
    /\ pc = "returned"
    /\ Len(NonBlankLinesOf(csvText)) = 3
    /\ Len(data) = 2

\* C6: every record parseCSV returns holds a value for every header position,
\* in header order: at position idx the trimmed idx-th cell of its row, or the
\* empty string when the row has no such cell; it has as many fields as the
\* header row has cells.
C6_RecordHoldsEveryHeaderPosition ==
    [][(pc = "loop" /\ Len(data') = Len(data) + 1) =>
          LET r == data'[Len(data')]
              nh == Len(split(lines[1], COMMA))
          IN /\ Len(r) = nh
             /\ \A idx \in 1..nh :
                    /\ r[idx].key = normalizedHeaders[idx]
                    /\ r[idx].value = AssignedOf(lines[i], idx)]_vars

\* C7: the field name of every header cell is its canonical form translated by
\* the rename table; a canonical name that is no key of the table is unchanged.
C7_FieldNameIsRenamedCanonicalForm ==
    (pc \in {"loop", "returned"} /\ Len(lines) >= 2) =>
        LET raw == split(lines[1], COMMA)
        IN /\ Len(normalizedHeaders) = Len(raw)
           /\ \A idx \in 1..Len(raw) :
                  LET c == CanonicalOf(raw[idx])
                  IN normalizedHeaders[idx] =
                         (IF c \in DOMAIN headerMap THEN headerMap[c] ELSE c)

\* C8: every record parseCSV returns has a field whose value is not empty.
C8_NoRecordIsAllBlank ==
    \A k \in 1..Len(data) : \E n \in 1..Len(data[k]) : data[k][n].value # <<>>

(***************************************************************************)
(* Properties of the page, under Spec                                      *)
(***************************************************************************)
\* C1 as stated: when a fetch of a fetchAndLoadData cycle fails, the dataset
\* whose fetch failed holds after the cycle the records it held before it.
C1_FailedFetchKeepsDataset ==
    [][lastCycle' # lastCycle =>
          /\ ~lastCycle'.doctorsOk => doctorsData' = doctorsData
          /\ ~lastCycle'.databaseOk => databaseData' = databaseData]_vars

\* C1 as amended: when a fetch of a fetchAndLoadData cycle fails, the dataset
\* whose fetch failed is empty after the cycle.
C1_FailedFetchEmptiesDataset ==
    [][lastCycle' # lastCycle =>
          /\ ~lastCycle'.doctorsOk => doctorsData' = <<>>
          /\ ~lastCycle'.databaseOk => databaseData' = <<>>]_vars

\* The last cycle's doctors fetch failed and its database fetch did not, on
\* the doctors screen, whose table still shows rows of the dataset now lost.
C1_Witness ==
    /\ lastCycle.id >= 1
    /\ ~lastCycle.doctorsOk
    /\ lastCycle.databaseOk
    /\ doctorsData = <<>>
    /\ databaseData # <<>>
    /\ activeScreen = "doctors"
    /\ doctorRows # <<>>

\* C2: exactly one interval timer is live while the active screen is a data
\* view, and none while it is not; there are never two.
C2_OneTimerOnDataViewsNoneOnHome ==
    Cardinality(timers) = (IF activeScreen \in DataViews THEN 1 ELSE 0)

\* On a data view after a third setInterval, with a cycle completed.
C2_Witness ==
    /\ loaded
    /\ activeScreen = "database"
    /\ nextTimer >= 4
    /\ lastCycle.id >= 1
    /\ timers = {dataIntervalId}

\* C9: while a data view is active, its table shows exactly the rows of
\* filterData(trimmed search query, dataset).
C9_TableShowsFilteredDataset ==
    /\ activeScreen = "doctors" =>
           doctorRows = renderDoctorsTable(filterData(trim(doctorSearch), doctorsData))
    /\ activeScreen = "database" =>
           databaseRows = renderDatabaseTable(filterData(trim(databaseSearch), databaseData))

\* C10: once every started cycle has completed, the datasets are those the
\* cycle started last has loaded.
C10_LastStartedCycleWins ==
    (cycles = {} /\ started >= 2) => lastCycle.id = started

====
